---- MODULE Spec2Model ----
(***************************************************************************)
(* Model of the Maze class (src/src/maze.py) and the Cell state it owns    *)
(* (src/src/cell.py): construction (create cells, break entrance and exit, *)
(* recursive carving, reset of visited flags) and the recursive solver.    *)
(* The recursion of _break_walls_r and _solve_r is an explicit call stack. *)
(* Drawing (Window, Cell.draw) changes no grid state and is left out; the  *)
(* calls of Cell.draw_move are recorded in the variable moves.             *)
(***************************************************************************)
EXTENDS Integers, Sequences, FiniteSets, TLC

\* ---------------------------------------------------------------- bounds
MaxRows == 2
MaxCols == 3
NegDims == 1
MaxSeed == 1
GridRows == 2
GridCols == 2

\* ------------------------------------------------------------- constants
\* seed: int | None = None; the absent seed is the value below
None == 0 - 1
\* abstraction of the Mersenne Twister: a multiplicative generator mod 31
RngMod == 31
RngMul == 3

DIRECTIONS ==
  << [name |-> "down",  dy |-> 1,     dx |-> 0],
     [name |-> "right", dy |-> 0,     dx |-> 1],
     [name |-> "up",    dy |-> 0 - 1, dx |-> 0],
     [name |-> "left",  dy |-> 0,     dx |-> 0 - 1] >>

VARIABLES
  num_rows,   \* Maze._num_rows
  num_cols,   \* Maze._num_cols
  cells,      \* Maze._cells: list of rows, each a list of Cell
  seed,       \* the seed argument of the running/last constructor
  rng,        \* state of the module-level generator of `random`
  pc,         \* the method the program is in
  in_init,    \* TRUE while Maze.__init__ is running
  stack,      \* frames of _break_walls_r / _solve_r, innermost last
  retval,     \* value returned by the _solve_r frame that just returned
  moves,      \* Cell.draw_move calls of the running/last solve, in order
  first,      \* the first solve() made on this Maze, and what it returned
  before,     \* the call made on this Maze before the last one
  last,       \* the last call made on this Maze (running or returned)
  prev        \* the Maze built just before with the same arguments and seed

vars == << num_rows, num_cols, cells, seed, rng, pc, in_init, stack,
           retval, moves, first, before, last, prev >>

\* ------------------------------------------------------------ Cell, lists
\* Cell.__init__
NewCell ==
  [has_left_wall |-> TRUE, has_right_wall |-> TRUE,
   has_top_wall |-> TRUE, has_bottom_wall |-> TRUE, visited |-> FALSE]

\* Max0 clamping at one: a nonpositive dimension still yields one row/column
Max1(n) == IF n > 1 THEN n ELSE 1

\* len(range(n))
Max0(n) == IF n > 0 THEN n ELSE 0

\* Python list indexing: list[k] of a list of length len
PyValid(len, k) == (0 - len) <= k /\ k < len
PyPos(len, k) == IF k >= 0 THEN k + 1 ELSE len + k + 1

\* self._cells[i][j] does not raise IndexError
HasCell(i, j) ==
  /\ PyValid(Len(cells), i)
  /\ PyValid(Len(cells[PyPos(Len(cells), i)]), j)

RowPos(i) == PyPos(Len(cells), i)
ColPos(i, j) == PyPos(Len(cells[RowPos(i)]), j)

\* self._cells[i][j]
CellAt(i, j) == cells[RowPos(i)][ColPos(i, j)]

\* ------------------------------------------------------- random generator
\* random.seed(seed)
SeedState(s) == (s % (RngMod - 1)) + 1
NextRng(r) == (r * RngMul) % RngMod
\* index drawn by random.choice on a list of n elements
RandBelow(r, n) == r % n

\* Reseed without the call of random.seed: the generator just runs on
ReseedNever(s, r) == r

\* rng after `if seed is not None: random.seed(seed)`
Reseed(s, r) == IF s # None THEN SeedState(s) ELSE r

\* ----------------------------------------------------------------- walls
Frame(i, j) == [i |-> i, j |-> j, k |-> 0]

\* HasWallInDirection with the flags of "up" and "down" exchanged
HasWallInDirectionSwapped(cell, direction) ==
  CASE direction = "up" -> cell.has_bottom_wall
    [] direction = "down" -> cell.has_top_wall
    [] direction = "left" -> cell.has_left_wall
    [] direction = "right" -> cell.has_right_wall

\* _has_wall_in_direction
HasWallInDirection(cell, direction) ==
  CASE direction = "up" -> cell.has_top_wall
    [] direction = "down" -> cell.has_bottom_wall
    [] direction = "left" -> cell.has_left_wall
    [] direction = "right" -> cell.has_right_wall

\* IsValidMove testing the upper bounds only: a negative index is let through
IsValidMoveNoLower(i, j, dy, dx) ==
  LET new_y == i + dy
      new_x == j + dx
  IN IF ~(new_y < num_rows /\ new_x < num_cols)
     THEN FALSE
     ELSE ~CellAt(new_y, new_x).visited

\* IsValidMove without the bounds check: the index -1 reads the last cell
IsValidMoveNoBounds(i, j, dy, dx) ==
  LET new_y == i + dy
      new_x == j + dx
  IN ~CellAt(new_y, new_x).visited

\* _is_valid_move
IsValidMove(i, j, dy, dx) ==
  LET new_y == i + dy
      new_x == j + dx
  IN IF ~(0 <= new_y /\ new_y < num_rows /\ 0 <= new_x /\ new_x < num_cols)
     THEN FALSE
     ELSE ~CellAt(new_y, new_x).visited

\* OpenWalls forgetting to_cell: only the current cell's flag is removed
OpenWallsOneSide(cs, i, j, d) ==
  CASE d.name = "up" -> [cs EXCEPT ![i + 1][j + 1].has_top_wall = FALSE]
    [] d.name = "down" -> [cs EXCEPT ![i + 1][j + 1].has_bottom_wall = FALSE]
    [] d.name = "left" -> [cs EXCEPT ![i + 1][j + 1].has_left_wall = FALSE]
    [] d.name = "right" -> [cs EXCEPT ![i + 1][j + 1].has_right_wall = FALSE]

\* the match statement of _break_walls_r: both sides of the wall are removed
OpenWalls(cs, i, j, d) ==
  LET ti == i + d.dy
      tj == j + d.dx
  IN CASE d.name = "up" ->
            [cs EXCEPT ![i + 1][j + 1].has_top_wall = FALSE,
                       ![ti + 1][tj + 1].has_bottom_wall = FALSE]
       [] d.name = "down" ->
            [cs EXCEPT ![i + 1][j + 1].has_bottom_wall = FALSE,
                       ![ti + 1][tj + 1].has_top_wall = FALSE]
       [] d.name = "left" ->
            [cs EXCEPT ![i + 1][j + 1].has_left_wall = FALSE,
                       ![ti + 1][tj + 1].has_right_wall = FALSE]
       [] d.name = "right" ->
            [cs EXCEPT ![i + 1][j + 1].has_right_wall = FALSE,
                       ![ti + 1][tj + 1].has_left_wall = FALSE]

\* CanVisit with the column bound off by one: the last column is out of reach
CanVisitShort(i, j, d) ==
  LET new_y == i + d.dy
      new_x == j + d.dx
  IN /\ 0 <= new_x /\ new_x < num_cols - 1
     /\ 0 <= new_y /\ new_y < num_rows
     /\ ~CellAt(new_y, new_x).visited

\* to_visit of _break_walls_r: the directions with an unvisited in-grid cell
CanVisit(i, j, d) ==
  LET new_y == i + d.dy
      new_x == j + d.dx
  IN /\ 0 <= new_x /\ new_x < num_cols
     /\ 0 <= new_y /\ new_y < num_rows
     /\ ~CellAt(new_y, new_x).visited

ToVisit(i, j) == SelectSeq(DIRECTIONS, LAMBDA d : CanVisit(i, j, d))

\* walls only, as compared by test_maze_creation_with_seed
Walls(cs) ==
  [r \in DOMAIN cs |-> [c \in DOMAIN cs[r] |->
     [has_left_wall |-> cs[r][c].has_left_wall,
      has_right_wall |-> cs[r][c].has_right_wall,
      has_top_wall |-> cs[r][c].has_top_wall,
      has_bottom_wall |-> cs[r][c].has_bottom_wall]]]

NoPrev == [num_rows |-> 0, num_cols |-> 0, seed |-> None, walls |-> << >>]

Top == stack[Len(stack)]
Pop == SubSeq(stack, 1, Len(stack) - 1)
SetTop(f) == [stack EXCEPT ![Len(stack)] = f]

\* where a method returns to: the next statement of __init__, or the caller
After(method) ==
  IF in_init
  THEN CASE method = "break_entrance_and_exit" -> "break_walls_r"
         [] method = "break_walls_r" -> "reset_cells_visited"
         [] method = "reset_cells_visited" -> "idle"
  ELSE "idle"

AllUnvisited ==
  \A r \in DOMAIN cells : \A c \in DOMAIN cells[r] : ~cells[r][c].visited

AllVisited ==
  \A r \in DOMAIN cells : \A c \in DOMAIN cells[r] : cells[r][c].visited

\* record of a call: whether it starts with every cell unvisited, then
\* (done) what it returned and the moves it drew
Call(op) ==
  [op |-> op, clean |-> AllUnvisited, done |-> FALSE, ret |-> "none",
   moves |-> << >>, isfirst |-> op = "solve" /\ first.op = "none"]

NoCall ==
  [op |-> "none", clean |-> TRUE, done |-> TRUE, ret |-> "none",
   moves |-> << >>, isfirst |-> FALSE]

Returned(ret, mv) ==
  IF in_init THEN last
  ELSE [last EXCEPT !.done = TRUE, !.ret = ret, !.moves = mv]

\* ------------------------------------------------------------ construction
\* Maze(x1, y1, r, c, sx, sy, win, s): __init__ up to random.seed
Construct(r, c, s) ==
  /\ pc \in {"start", "idle", "raised"}
  /\ num_rows' = r
  /\ num_cols' = c
  /\ cells' = << >>
  /\ seed' = s
  /\ rng' = Reseed(s, rng)
  /\ prev' = IF pc = "idle" /\ seed # None
                  /\ << r, c, s >> = << num_rows, num_cols, seed >>
             THEN [num_rows |-> num_rows, num_cols |-> num_cols,
                   seed |-> seed, walls |-> Walls(cells)]
             ELSE NoPrev
  /\ in_init' = TRUE
  /\ pc' = "create_cells"
  /\ first' = NoCall
  /\ before' = NoCall
  /\ last' = NoCall
  /\ moves' = << >>
  /\ retval' = "none"
  /\ stack' = << >>

\* _create_cells
CreateCells ==
  /\ pc = "create_cells"
  /\ cells' = [r \in 1..Max0(num_rows) |->
                 [c \in 1..Max0(num_cols) |-> NewCell]]
  /\ pc' = "break_entrance_and_exit"
  /\ UNCHANGED << num_rows, num_cols, seed, rng, in_init, stack, retval,
                  moves, first, before, last, prev >>

\* BreakEntranceAndExit removing the bottom wall of the exit cell instead of
\* its right wall
BreakEntranceAndExitBottom ==
  /\ pc = "break_entrance_and_exit"
  /\ LET m == num_rows - 1
         n == num_cols - 1
     IN IF ~(HasCell(0, 0) /\ HasCell(m, n))
        THEN /\ pc' = "raised"
             /\ in_init' = FALSE
             /\ UNCHANGED << cells, stack >>
        ELSE LET c1 == [cells EXCEPT
                          ![RowPos(0)][ColPos(0, 0)].has_left_wall = FALSE]
             IN /\ cells' = [c1 EXCEPT
                               ![RowPos(m)][ColPos(m, n)].has_bottom_wall = FALSE]
                /\ pc' = After("break_entrance_and_exit")
                /\ stack' = IF in_init THEN << Frame(0, 0) >> ELSE << >>
                /\ UNCHANGED in_init
  /\ last' = Returned("none", << >>)
  /\ UNCHANGED << first, before >>
  /\ UNCHANGED << num_rows, num_cols, seed, rng, retval, moves, prev >>

\* _break_entrance_and_exit
BreakEntranceAndExit ==
  /\ pc = "break_entrance_and_exit"
  /\ LET m == num_rows - 1
         n == num_cols - 1
     IN IF ~(HasCell(0, 0) /\ HasCell(m, n))
        THEN \* IndexError leaves __init__ (or the caller's call)
             /\ pc' = "raised"
             /\ in_init' = FALSE
             /\ UNCHANGED << cells, stack >>
        ELSE LET c1 == [cells EXCEPT
                          ![RowPos(0)][ColPos(0, 0)].has_left_wall = FALSE]
             IN /\ cells' = [c1 EXCEPT
                               ![RowPos(m)][ColPos(m, n)].has_right_wall = FALSE]
                /\ pc' = After("break_entrance_and_exit")
                /\ stack' = IF in_init THEN << Frame(0, 0) >> ELSE << >>
                /\ UNCHANGED in_init
  /\ last' = Returned("none", << >>)
  /\ UNCHANGED << first, before >>
  /\ UNCHANGED << num_rows, num_cols, seed, rng, retval, moves, prev >>

\* _break_walls_r, lines 234-235: entering a cell
BreakWallsEnter ==
  /\ pc = "break_walls_r"
  /\ stack # << >>
  /\ Top.k = 0
  /\ cells' = [cells EXCEPT
                 ![RowPos(Top.i)][ColPos(Top.i, Top.j)].visited = TRUE]
  /\ stack' = SetTop([Top EXCEPT !.k = 1])
  /\ UNCHANGED << num_rows, num_cols, seed, rng, pc, in_init, retval,
                  moves, first, before, last, prev >>

\* BreakWallsLoop as a single random walk: a dead end ends the carving
\* instead of returning to the caller's loop
BreakWallsLoopWalk ==
  /\ pc = "break_walls_r"
  /\ stack # << >>
  /\ Top.k = 1
  /\ LET i == Top.i
         j == Top.j
         to_visit == ToVisit(i, j)
     IN IF to_visit = << >>
        THEN /\ stack' = << >>
             /\ UNCHANGED << cells, rng >>
        ELSE \E n \in IF seed = None THEN 1..Len(to_visit)
                      ELSE {RandBelow(rng, Len(to_visit)) + 1} :
               LET d == to_visit[n]
               IN /\ cells' = OpenWalls(cells, i, j, d)
                  /\ stack' = Append(stack, Frame(i + d.dy, j + d.dx))
                  /\ rng' = IF seed = None THEN rng ELSE NextRng(rng)
  /\ UNCHANGED << num_rows, num_cols, seed, pc, in_init, retval, moves,
                  first, before, last, prev >>

\* _break_walls_r, one pass of the while loop: return, or carve and recurse
BreakWallsLoop ==
  /\ pc = "break_walls_r"
  /\ stack # << >>
  /\ Top.k = 1
  /\ LET i == Top.i
         j == Top.j
         to_visit == ToVisit(i, j)
     IN IF to_visit = << >>
        THEN /\ stack' = Pop
             /\ UNCHANGED << cells, rng >>
        ELSE \E n \in IF seed = None THEN 1..Len(to_visit)
                      ELSE {RandBelow(rng, Len(to_visit)) + 1} :
               LET d == to_visit[n]
               IN /\ cells' = OpenWalls(cells, i, j, d)
                  /\ stack' = Append(stack, Frame(i + d.dy, j + d.dx))
                  /\ rng' = IF seed = None THEN rng ELSE NextRng(rng)
  /\ UNCHANGED << num_rows, num_cols, seed, pc, in_init, retval, moves,
                  first, before, last, prev >>

\* the outermost _break_walls_r(0, 0) has returned
BreakWallsReturn ==
  /\ pc = "break_walls_r"
  /\ stack = << >>
  /\ pc' = After("break_walls_r")
  /\ last' = Returned("none", << >>)
  /\ UNCHANGED << first, before >>
  /\ UNCHANGED << num_rows, num_cols, cells, seed, rng, in_init, stack,
                  retval, moves, prev >>

\* ResetCellsVisited putting a fresh Cell in every place: the walls come back
ResetCellsVisitedFresh ==
  /\ pc = "reset_cells_visited"
  /\ cells' = [r \in DOMAIN cells |-> [c \in DOMAIN cells[r] |-> NewCell]]
  /\ pc' = After("reset_cells_visited")
  /\ in_init' = FALSE
  /\ last' = Returned("none", << >>)
  /\ UNCHANGED << first, before >>
  /\ UNCHANGED << num_rows, num_cols, seed, rng, stack, retval, moves, prev >>

\* ResetCellsVisited with range(num_cols - 1): the last column is left out
ResetCellsVisitedShort ==
  /\ pc = "reset_cells_visited"
  /\ cells' = [r \in DOMAIN cells |-> [c \in DOMAIN cells[r] |->
                 IF c = num_cols THEN cells[r][c]
                 ELSE [cells[r][c] EXCEPT !.visited = FALSE]]]
  /\ pc' = After("reset_cells_visited")
  /\ in_init' = FALSE
  /\ last' = Returned("none", << >>)
  /\ UNCHANGED << first, before >>
  /\ UNCHANGED << num_rows, num_cols, seed, rng, stack, retval, moves, prev >>

\* _reset_cells_visited
ResetCellsVisited ==
  /\ pc = "reset_cells_visited"
  /\ cells' = [r \in DOMAIN cells |-> [c \in DOMAIN cells[r] |->
                 [cells[r][c] EXCEPT !.visited = FALSE]]]
  /\ pc' = After("reset_cells_visited")
  /\ in_init' = FALSE
  /\ last' = Returned("none", << >>)
  /\ UNCHANGED << first, before >>
  /\ UNCHANGED << num_rows, num_cols, seed, rng, stack, retval, moves, prev >>

\* ----------------------------------------------------------------- solver
Move(undo, i, j, new_y, new_x) ==
  [undo |-> undo, from |-> << i, j >>, to |-> << new_y, new_x >>]

\* _solve_r, lines 137-142: mark the cell, succeed at the goal
SolveEnter ==
  /\ pc = "solve"
  /\ stack # << >>
  /\ retval = "none"
  /\ Top.k = 0
  /\ cells' = [cells EXCEPT
                 ![RowPos(Top.i)][ColPos(Top.i, Top.j)].visited = TRUE]
  /\ IF Top.i = num_rows - 1 /\ Top.j = num_cols - 1
     THEN /\ stack' = Pop
          /\ retval' = "True"
     ELSE /\ stack' = SetTop([Top EXCEPT !.k = 1])
          /\ UNCHANGED retval
  /\ UNCHANGED << num_rows, num_cols, seed, rng, pc, in_init, moves,
                  first, before, last, prev >>

\* _solve_r, lines 144-154: one direction of the for loop
SolveTry ==
  /\ pc = "solve"
  /\ stack # << >>
  /\ retval = "none"
  /\ Top.k \in 1..Len(DIRECTIONS)
  /\ LET i == Top.i
         j == Top.j
         d == DIRECTIONS[Top.k]
     IN IF HasWallInDirection(CellAt(i, j), d.name)
        THEN /\ stack' = SetTop([Top EXCEPT !.k = @ + 1])
             /\ UNCHANGED moves
        ELSE IF ~IsValidMove(i, j, d.dy, d.dx)
        THEN /\ stack' = SetTop([Top EXCEPT !.k = @ + 1])
             /\ UNCHANGED moves
        ELSE /\ moves' = Append(moves, Move(FALSE, i, j, i + d.dy, j + d.dx))
             /\ stack' = Append(stack, Frame(i + d.dy, j + d.dx))
  /\ UNCHANGED << num_rows, num_cols, cells, seed, rng, pc, in_init,
                  retval, first, before, last, prev >>

\* SolveBack without line 157: a failed move is not undone
SolveBackNoUndo ==
  /\ pc = "solve"
  /\ stack # << >>
  /\ retval # "none"
  /\ IF retval = "True"
     THEN /\ stack' = Pop
          /\ UNCHANGED << retval, moves >>
     ELSE /\ stack' = SetTop([Top EXCEPT !.k = @ + 1])
          /\ retval' = "none"
          /\ UNCHANGED moves
  /\ UNCHANGED << num_rows, num_cols, cells, seed, rng, pc, in_init,
                  first, before, last, prev >>

\* _solve_r, lines 154-157: the recursive call has returned
SolveBack ==
  /\ pc = "solve"
  /\ stack # << >>
  /\ retval # "none"
  /\ LET i == Top.i
         j == Top.j
         d == DIRECTIONS[Top.k]
     IN IF retval = "True"
        THEN /\ stack' = Pop
             /\ UNCHANGED << retval, moves >>
        ELSE /\ moves' = Append(moves, Move(TRUE, i, j, i + d.dy, j + d.dx))
             /\ stack' = SetTop([Top EXCEPT !.k = @ + 1])
             /\ retval' = "none"
  /\ UNCHANGED << num_rows, num_cols, cells, seed, rng, pc, in_init,
                  first, before, last, prev >>

\* _solve_r, line 159: every direction has been tried
SolveFail ==
  /\ pc = "solve"
  /\ stack # << >>
  /\ retval = "none"
  /\ Top.k = Len(DIRECTIONS) + 1
  /\ stack' = Pop
  /\ retval' = "False"
  /\ UNCHANGED << num_rows, num_cols, cells, seed, rng, pc, in_init,
                  moves, first, before, last, prev >>

\* solve() returns the value of _solve_r(0, 0)
SolveReturn ==
  /\ pc = "solve"
  /\ stack = << >>
  /\ retval # "none"
  /\ pc' = "idle"
  /\ last' = Returned(retval, moves)
  /\ first' = IF first.op = "none" THEN Returned(retval, moves) ELSE first
  /\ UNCHANGED before
  /\ retval' = "none"
  /\ UNCHANGED << num_rows, num_cols, cells, seed, rng, in_init, stack,
                  moves, prev >>

\* ------------------------------------------------- calls made on the Maze
CanCall == pc = "idle"

\* CallSolve clearing the visited flags before _solve_r(0, 0)
CallSolveCleared ==
  /\ CanCall
  /\ pc' = "solve"
  /\ cells' = [r \in DOMAIN cells |-> [c \in DOMAIN cells[r] |->
                 [cells[r][c] EXCEPT !.visited = FALSE]]]
  /\ stack' = << Frame(0, 0) >>
  /\ moves' = << >>
  /\ retval' = "none"
  /\ before' = last
  /\ last' = Call("solve")
  /\ UNCHANGED first
  /\ UNCHANGED << num_rows, num_cols, seed, rng, in_init, prev >>

\* maze.solve()
CallSolve ==
  /\ CanCall
  /\ pc' = "solve"
  /\ stack' = << Frame(0, 0) >>
  /\ moves' = << >>
  /\ retval' = "none"
  /\ before' = last
  /\ last' = Call("solve")
  /\ UNCHANGED first
  /\ UNCHANGED << num_rows, num_cols, cells, seed, rng, in_init, prev >>

\* maze._reset_cells_visited()
CallResetCellsVisited ==
  /\ CanCall
  /\ pc' = "reset_cells_visited"
  /\ before' = last
  /\ last' = Call("reset_cells_visited")
  /\ UNCHANGED first
  /\ UNCHANGED << num_rows, num_cols, cells, seed, rng, in_init, stack,
                  retval, moves, prev >>

\* maze._break_entrance_and_exit(), as main() calls it
CallBreakEntranceAndExit ==
  /\ CanCall
  /\ pc' = "break_entrance_and_exit"
  /\ before' = last
  /\ last' = Call("break_entrance_and_exit")
  /\ UNCHANGED first
  /\ UNCHANGED << num_rows, num_cols, cells, seed, rng, in_init, stack,
                  retval, moves, prev >>

\* ---------------------------------------------------------- specifications
Dims == ((0 - NegDims)..MaxRows) \X ((0 - NegDims)..MaxCols)
Seeds == {None} \cup (0..MaxSeed)

Init ==
  /\ num_rows = 0
  /\ num_cols = 0
  /\ cells = << >>
  /\ seed = None
  /\ rng = 1
  /\ pc = "start"
  /\ in_init = FALSE
  /\ stack = << >>
  /\ retval = "none"
  /\ moves = << >>
  /\ first = NoCall
  /\ before = NoCall
  /\ last = NoCall
  /\ prev = NoPrev

\* the steps of a running _break_walls_r
RunCarve ==
  \/ BreakWallsEnter
  \/ BreakWallsLoop
  \/ BreakWallsReturn

\* the steps of solve and _reset_cells_visited
Run ==
  \/ ResetCellsVisited
  \/ SolveEnter
  \/ SolveTry
  \/ SolveBack
  \/ SolveFail
  \/ SolveReturn

\* solving and resetting a Maze
Calls ==
  \/ CallSolve
  \/ CallResetCellsVisited

Next ==
  \/ \E d \in Dims : \E s \in Seeds : Construct(d[1], d[2], s)
  \/ CreateCells
  \/ BreakEntranceAndExit
  \/ RunCarve
  \/ Run
  \/ Calls
  \/ CallBreakEntranceAndExit

\* the program: mazes are built by Maze(...) and then used; a method that
\* has been called runs on (single thread, nothing to wait for)
Spec ==
  /\ Init
  /\ [][Next]_vars
  /\ WF_vars(CreateCells \/ BreakEntranceAndExit \/ RunCarve \/ Run)

\* A Maze object in any wall state in which the two sides of every wall
\* agree: open is the set of removed internal walls, doors tells whether
\* the entrance and the exit are removed.  All cells are unvisited.
GridOf(r, c, open, doors) ==
  [y \in 1..r |-> [x \in 1..c |->
     [has_left_wall |->
        IF x = 1 THEN ~(doors /\ y = 1)
        ELSE << y - 1, x - 2, "right" >> \notin open,
      has_right_wall |->
        IF x = c THEN ~(doors /\ y = r)
        ELSE << y - 1, x - 1, "right" >> \notin open,
      has_top_wall |->
        IF y = 1 THEN TRUE ELSE << y - 2, x - 1, "down" >> \notin open,
      has_bottom_wall |->
        IF y = r THEN TRUE ELSE << y - 1, x - 1, "down" >> \notin open,
      visited |-> FALSE]]]

InternalWalls(r, c) ==
  {<< i, j, "right" >> : i \in 0..(r - 1), j \in 0..(c - 2)}
    \cup {<< i, j, "down" >> : i \in 0..(r - 2), j \in 0..(c - 1)}

InitGrid ==
  /\ num_rows \in 1..GridRows
  /\ num_cols \in 1..GridCols
  /\ \E open \in SUBSET InternalWalls(num_rows, num_cols) :
       \E doors \in BOOLEAN :
         cells = GridOf(num_rows, num_cols, open, doors)
  /\ seed = None
  /\ rng = 1
  /\ pc = "idle"
  /\ in_init = FALSE
  /\ stack = << >>
  /\ retval = "none"
  /\ moves = << >>
  /\ first = NoCall
  /\ before = NoCall
  /\ last = NoCall
  /\ prev = NoPrev

NextGrid == Run \/ Calls

\* a Maze in an arbitrary wall state, solved and reset by its caller
SpecGrid == InitGrid /\ [][NextGrid]_vars /\ WF_vars(Run)

\* _break_walls_r(0, 0) has just been called on a Maze whose cells are all
\* unvisited, as test_break_walls_r_all_cells_visited does; the walls are
\* all present or all removed, the entrance and exit present or removed
InitCarve ==
  /\ num_rows \in 1..MaxRows
  /\ num_cols \in 1..MaxCols
  /\ \E open \in {{}, InternalWalls(num_rows, num_cols)} :
       \E doors \in BOOLEAN :
         cells = GridOf(num_rows, num_cols, open, doors)
  /\ seed = None
  /\ rng = 1
  /\ pc = "break_walls_r"
  /\ in_init = FALSE
  /\ stack = << Frame(0, 0) >>
  /\ retval = "none"
  /\ moves = << >>
  /\ first = NoCall
  /\ before = NoCall
  /\ last = [NoCall EXCEPT !.op = "break_walls_r", !.done = FALSE]
  /\ prev = NoPrev

SpecCarve == InitCarve /\ [][RunCarve]_vars /\ WF_vars(RunCarve)

\* ------------------------------------------------------- the maze as a graph
Coords == (0..(num_rows - 1)) \X (0..(num_cols - 1))

Opposite(direction) ==
  CASE direction = "up" -> "down"
    [] direction = "down" -> "up"
    [] direction = "left" -> "right"
    [] direction = "right" -> "left"

\* b is the cell next to a in direction d, and no wall flag separates them
Passage(a, b, d) ==
  /\ b = << a[1] + d.dy, a[2] + d.dx >>
  /\ b \in Coords
  /\ ~HasWallInDirection(CellAt(a[1], a[2]), d.name)
  /\ ~HasWallInDirection(CellAt(b[1], b[2]), Opposite(d.name))

Neighbours(a) ==
  {b \in Coords : \E n \in DOMAIN DIRECTIONS : Passage(a, b, DIRECTIONS[n])}

RECURSIVE ReachFrom(_)
ReachFrom(S) ==
  LET N == S \cup UNION {Neighbours(a) : a \in S}
  IN IF N = S THEN S ELSE ReachFrom(N)

\* cells left after removing, again and again, those with at most one
\* passage to the others: none is left exactly when no cycle exists
RECURSIVE Prune(_)
Prune(S) ==
  LET L == {a \in S : Cardinality(Neighbours(a) \cap S) <= 1}
  IN IF L = {} THEN S ELSE Prune(S \ L)

\* Maze(...) has returned a Maze to its caller
Constructed == ~in_init /\ pc \notin {"start", "raised"}

\* Maze(...) has just returned: no method was called on the Maze yet
Finished == Constructed /\ pc = "idle" /\ last.op = "none"

\* C1: once construction has finished, every cell is reachable from (0,0)
\* through open passages and the passages contain no cycle, so exactly one
\* simple path joins any two cells (a spanning tree).
C1_SpanningTree ==
  Finished =>
    /\ ReachFrom({<< 0, 0 >>}) = Coords
    /\ Prune(Coords) = {}

\* a finished 2 x 3 maze in which a cell has three passages: the carving
\* came back to that cell and went on in another direction
C1_Witness ==
  /\ Finished
  /\ num_rows = 2 /\ num_cols = 3
  /\ \E a \in Coords : Cardinality(Neighbours(a)) = 3

\* the walls between two in-grid cells of which a flag has been removed
RemovedInternal ==
  {w \in InternalWalls(num_rows, num_cols) :
     LET d == IF w[3] = "right" THEN DIRECTIONS[2] ELSE DIRECTIONS[1]
     IN \/ ~HasWallInDirection(CellAt(w[1], w[2]), d.name)
        \/ ~HasWallInDirection(CellAt(w[1] + d.dy, w[2] + d.dx),
                               Opposite(d.name))}

\* the removed wall flags that face the outside of the grid
RemovedBoundary ==
  {w \in Coords \X {"up", "down", "left", "right"} :
     /\ \E n \in DOMAIN DIRECTIONS :
          /\ DIRECTIONS[n].name = w[2]
          /\ << w[1][1] + DIRECTIONS[n].dy, w[1][2] + DIRECTIONS[n].dx >>
               \notin Coords
     /\ ~HasWallInDirection(CellAt(w[1][1], w[1][2]), w[2])}

\* C2: when construction has finished exactly num_rows * num_cols - 1
\* internal walls are removed, and the removed boundary walls are exactly
\* the left wall of (0,0) and the right wall of the last cell.
C2_WallCounts ==
  Finished =>
    /\ Cardinality(RemovedInternal) = num_rows * num_cols - 1
    /\ RemovedBoundary =
         { << << 0, 0 >>, "left" >>,
           << << num_rows - 1, num_cols - 1 >>, "right" >> }
    /\ Cardinality(RemovedBoundary) = 2

\* a finished 2 x 3 maze: five internal walls removed
C2_Witness ==
  /\ Finished
  /\ num_rows = 2 /\ num_cols = 3
  /\ Cardinality(RemovedInternal) = 5
  /\ ~CellAt(0, 0).has_left_wall
  /\ ~CellAt(1, 2).has_right_wall

\* the first solve() made on this Maze is running
FirstSolveRunning == pc = "solve" /\ last.isfirst

\* the first solve() made on this Maze has just returned
FirstSolveReturned ==
  pc = "idle" /\ last.op = "solve" /\ last.isfirst /\ last.done

\* C3: on every constructed maze the first solve() terminates, returns
\* True, and when it returns (0,0) and the last cell are marked visited.
C3_FirstSolveSucceeds ==
  /\ [](FirstSolveReturned =>
          /\ last.ret = "True"
          /\ CellAt(0, 0).visited
          /\ CellAt(num_rows - 1, num_cols - 1).visited)
  /\ (FirstSolveRunning ~> FirstSolveReturned)

\* the first solve() of a 2 x 3 maze returned True after five moves, the
\* path winding through every cell
C3_Witness ==
  /\ FirstSolveReturned
  /\ num_rows = 2 /\ num_cols = 3
  /\ last.ret = "True"
  /\ Len(last.moves) = 5

\* C4: in every state of construction, carving and solving, the two flags
\* of every wall between two in-grid cells are equal (right/left for
\* horizontal neighbours, bottom/top for vertical ones).
C4_SharedWalls ==
  cells # << >> =>
    \A w \in InternalWalls(num_rows, num_cols) :
      LET d == IF w[3] = "right" THEN DIRECTIONS[2] ELSE DIRECTIONS[1]
      IN HasWallInDirection(CellAt(w[1], w[2]), d.name)
           = HasWallInDirection(CellAt(w[1] + d.dy, w[2] + d.dx),
                                Opposite(d.name))

\* the carving is under way: a wall is removed and a cell is still unvisited
C4_Witness ==
  /\ pc = "break_walls_r"
  /\ in_init
  /\ RemovedInternal # {}
  /\ ~AllVisited

\* C5: a Maze built with the same num_rows, num_cols and non-None seed as
\* the Maze built just before it ends with the same four wall flags on
\* every cell.
C5_SeedDeterminism ==
  (Finished /\ prev.seed # None) =>
    /\ << prev.num_rows, prev.num_cols, prev.seed >>
         = << num_rows, num_cols, seed >>
    /\ Walls(cells) = prev.walls

\* a second 2 x 3 maze has been built with the seed of the first
C5_Witness ==
  /\ Finished
  /\ prev.seed # None
  /\ num_rows = 2 /\ num_cols = 3
  /\ prev.walls # << >>

\* a solve() called right after _reset_cells_visited(), and not the first
\* solve() made on this Maze, has just returned
ResolveReturned ==
  /\ pc = "idle"
  /\ last.op = "solve" /\ last.done /\ ~last.isfirst
  /\ before.op = "reset_cells_visited"

\* C6: on any grid, a solve() made after a reset returns what the first
\* solve() returned and draws the same forward and undo moves in the same
\* order, however many solves and resets came before.
C6_ResetSolveIdempotent ==
  ResolveReturned =>
    /\ first.op = "solve"
    /\ last.ret = first.ret
    /\ last.moves = first.moves

\* a solve() after a reset has returned True having undone a move
C6_Witness ==
  /\ ResolveReturned
  /\ last.ret = "True"
  /\ \E n \in DOMAIN last.moves : last.moves[n].undo

Visited == {a \in Coords : CellAt(a[1], a[2]).visited}

\* at least two cells, no internal wall removed, entrance and exit removed
UncarvedWithDoors ==
  /\ num_rows * num_cols >= 2
  /\ RemovedInternal = {}
  /\ ~CellAt(0, 0).has_left_wall
  /\ ~CellAt(num_rows - 1, num_cols - 1).has_right_wall

\* C7: on a grid of at least two cells with every internal wall present,
\* entrance and exit removed and all cells unvisited, solve() terminates
\* and returns False, having drawn no move and visited (0,0) only; no
\* exception leaves it.
C7_UncarvedSolveFails ==
  /\ []((UncarvedWithDoors /\ last.op = "solve" /\ last.clean) =>
          /\ pc \in {"solve", "idle"}
          /\ moves = << >>
          /\ Visited \subseteq {<< 0, 0 >>}
          /\ (last.done =>
                /\ last.ret = "False"
                /\ last.moves = << >>
                /\ Visited = {<< 0, 0 >>}))
  /\ ((UncarvedWithDoors /\ last.op = "solve" /\ last.clean /\ pc = "solve")
        ~> (pc = "idle" /\ last.op = "solve" /\ last.done
              /\ last.ret = "False"))

\* solve() has returned False on an uncarved 2 x 2 grid with both doors open
C7_Witness ==
  /\ UncarvedWithDoors
  /\ num_rows = 2 /\ num_cols = 2
  /\ pc = "idle" /\ last.op = "solve" /\ last.clean /\ last.done
  /\ last.ret = "False"

\* Maze(...) was called with a nonpositive dimension
BadDims == pc # "start" /\ (num_rows <= 0 \/ num_cols <= 0)

\* C8: a construction with num_rows <= 0 or num_cols <= 0 ends in an
\* error: it raises before any carving or solving step, and no Maze is
\* returned to the caller.
C8_BadDimsRejected ==
  /\ [](BadDims =>
          /\ pc \in {"create_cells", "break_entrance_and_exit", "raised"}
          /\ ~Constructed
          /\ stack = << >>
          /\ last.op = "none"
          /\ Coords = {})
  /\ ((BadDims /\ in_init) ~> (BadDims /\ pc = "raised"))

\* Maze(2, 0) has raised: two empty rows were built, nothing was returned
C8_Witness ==
  /\ pc = "raised"
  /\ num_rows = 2 /\ num_cols = 0
  /\ cells = << << >>, << >> >>

\* the called _break_walls_r(0, 0) has returned to its caller
CarveReturned == pc = "idle" /\ last.op = "break_walls_r" /\ last.done

\* C9: _break_walls_r(0, 0) started with all cells unvisited, in any of the
\* wall states, returns, and when it has returned every cell is visited.
C9_CarveVisitsAll ==
  /\ [](CarveReturned => AllVisited)
  /\ (pc = "break_walls_r" ~> (CarveReturned /\ AllVisited))

\* the carving has returned on a 2 x 3 grid that had no internal wall left
\* when it started
C9_Witness ==
  /\ CarveReturned
  /\ AllVisited
  /\ num_rows = 2 /\ num_cols = 3
  /\ Cardinality(RemovedInternal) = 7

\* Positions in ms[1..n] of the moves left open: a forward move is opened,
\* an undo move closes the last open move when that is a forward move of
\* the same two cells, and stays open itself otherwise.
RECURSIVE Open(_, _)
Open(ms, n) ==
  IF n = 0 THEN << >>
  ELSE LET acc == Open(ms, n - 1)
           m == ms[n]
       IN IF m.undo /\ acc # << >>
               /\ ~ms[acc[Len(acc)]].undo
               /\ ms[acc[Len(acc)]].from = m.from
               /\ ms[acc[Len(acc)]].to = m.to
          THEN SubSeq(acc, 1, Len(acc) - 1)
          ELSE Append(acc, n)

\* the forward move at p is closed by the undo move at q
Closes(ms, p, q) ==
  /\ p < q
  /\ ~ms[p].undo /\ ms[q].undo
  /\ Open(ms, q - 1) # << >>
  /\ Open(ms, q - 1)[Len(Open(ms, q - 1))] = p
  /\ Len(Open(ms, q)) = Len(Open(ms, q - 1)) - 1

Adjacent(a, b) ==
  \E n \in DOMAIN DIRECTIONS :
    b = << a[1] + DIRECTIONS[n].dy, a[2] + DIRECTIONS[n].dx >>

\* a solve() has just returned
SolveReturned == pc = "idle" /\ last.op = "solve" /\ last.done

\* C10: in the moves of a returned solve(), every undo move closes the
\* last forward move still open, for the same two cells, with no move from
\* the current cell in between; after a failed solve every forward move is
\* undone; after a successful one the forward moves left open are followed
\* by no move from their cell and form a chain of adjacent cells from
\* (0,0) to the last cell.
C10_MoveTrace ==
  SolveReturned =>
    LET ms == last.moves
        live == Open(ms, Len(ms))
        goal == << num_rows - 1, num_cols - 1 >>
    IN /\ \A k \in DOMAIN live : ~ms[live[k]].undo
       /\ \A q \in DOMAIN ms : ms[q].undo =>
            \E p \in 1..(q - 1) :
              /\ Closes(ms, p, q)
              /\ \A r \in (p + 1)..(q - 1) : ms[r].from # ms[p].from
       /\ last.ret = "False" => live = << >>
       /\ last.ret = "True" =>
            /\ \A k \in DOMAIN live :
                 /\ Adjacent(ms[live[k]].from, ms[live[k]].to)
                 /\ \A r \in (live[k] + 1)..Len(ms) :
                      ms[r].from # ms[live[k]].from
            /\ \A k \in 1..(Len(live) - 1) :
                 ms[live[k]].to = ms[live[k + 1]].from
            /\ IF live = << >> THEN goal = << 0, 0 >>
               ELSE /\ ms[live[1]].from = << 0, 0 >>
                    /\ ms[live[Len(live)]].to = goal

\* a solve() returned True after a move into a dead end was undone
C10_Witness ==
  /\ SolveReturned
  /\ last.ret = "True"
  /\ \E q \in DOMAIN last.moves : last.moves[q].undo
  /\ Len(Open(last.moves, Len(last.moves))) >= 2

\* a step of the running solve draws a forward move: the solver enters a cell
ForwardMove ==
  /\ pc = "solve"
  /\ Len(moves') = Len(moves) + 1
  /\ ~moves'[Len(moves')].undo

\* C11: while a solve() runs, every cell on the call stack is inside the
\* grid, and every forward move drawn goes between two in-grid cells that
\* are adjacent with no wall flag between them, never goes to (0,0) (entered
\* by the first call) and never to the cell of another forward move; the
\* step that draws a forward move leaves the current cell for an in-grid
\* cell that is unvisited at that moment and enters it.
C11_ForwardMoves ==
  /\ [](pc = "solve" =>
          /\ \A n \in DOMAIN stack : << stack[n].i, stack[n].j >> \in Coords
          /\ \A n \in DOMAIN moves : ~moves[n].undo =>
               /\ moves[n].from \in Coords
               /\ moves[n].to \in Coords
               /\ \E k \in DOMAIN DIRECTIONS :
                    Passage(moves[n].from, moves[n].to, DIRECTIONS[k])
               /\ moves[n].to # << 0, 0 >>
               /\ \A q \in DOMAIN moves :
                    (q # n /\ ~moves[q].undo) => moves[q].to # moves[n].to)
  /\ [][ForwardMove =>
          LET m == moves'[Len(moves')]
          IN /\ m.from = << Top.i, Top.j >>
             /\ m.to \in Coords
             /\ ~CellAt(m.to[1], m.to[2]).visited
             /\ stack' = Append(stack, Frame(m.to[1], m.to[2]))]_vars

\* a solve() started with all cells unvisited on a 2 x 2 grid with entrance
\* and exit removed has returned False: from (0,0) it moved into a dead end,
\* undid the move and went on to the wall-free left side of (0,0)
C11_Witness ==
  /\ SolveReturned
  /\ num_rows = 2 /\ num_cols = 2
  /\ last.clean
  /\ ~CellAt(0, 0).has_left_wall
  /\ ~CellAt(1, 1).has_right_wall
  /\ last.ret = "False"
  /\ Len(last.moves) >= 2

\* C12: every step of solve() and of _reset_cells_visited(), the call and
\* the return included, leaves num_rows, num_cols, the shape of the grid and
\* the four wall flags of every cell as they were, whatever solve returns.
C12_WallsUnchanged ==
  [][(pc \in {"solve", "reset_cells_visited"}
        \/ pc' \in {"solve", "reset_cells_visited"}) =>
       /\ num_rows' = num_rows
       /\ num_cols' = num_cols
       /\ Walls(cells') = Walls(cells)]_vars

\* on a grid with a removed internal wall the first solve() returned True,
\* the next one False, and the _reset_cells_visited() after them has returned
C12_Witness ==
  /\ pc = "idle"
  /\ last.op = "reset_cells_visited" /\ last.done
  /\ before.op = "solve" /\ before.done /\ before.ret = "False"
  /\ first.op = "solve" /\ first.ret = "True"
  /\ RemovedInternal # {}
  /\ AllUnvisited

\* a solve() called right after a solve() that returned True, with no other
\* call in between, has just returned
SecondSolveReturned ==
  /\ SolveReturned
  /\ before.op = "solve" /\ before.done /\ before.ret = "True"

\* C13: on a constructed maze, a solve() called right after a solve() that
\* returned True starts with the last cell visited; on a maze of at least
\* two cells it returns False and none of its moves goes to the last cell,
\* on a 1 x 1 maze it returns True.
C13_SecondSolveFails ==
  SecondSolveReturned =>
    LET goal == << num_rows - 1, num_cols - 1 >>
    IN /\ ~last.clean
       /\ CellAt(goal[1], goal[2]).visited
       /\ IF num_rows * num_cols >= 2
          THEN /\ last.ret = "False"
               /\ \A n \in DOMAIN last.moves : last.moves[n].to # goal
          ELSE last.ret = "True"

\* the second solve() in a row on a 2 x 3 maze has returned False
C13_Witness ==
  /\ SecondSolveReturned
  /\ num_rows = 2 /\ num_cols = 3
  /\ last.ret = "False"
====
